---------------------------- MODULE Spec2Model ----------------------------
(***************************************************************************)
(* Model of src/src/data_model/asset.rs: the Python-facing wrappers of the *)
(* asset data model (PyAssetDefinitionId, PyNewAssetDefinition, PyAsset).  *)
(*                                                                         *)
(* One object of each class is followed through its life: it is absent     *)
(* until its constructor succeeds, then its setters and getters are        *)
(* called with arbitrary Python arguments.  `last` records the last call:  *)
(* its name, its arguments, the object before the call and the result the  *)
(* Python caller sees (a return value, a Python exception, or the          *)
(* PanicException pyo3 raises when the Rust body panics).                  *)
(*                                                                         *)
(* Strings are sequences of one-character strings.  Options are sequences  *)
(* of length at most one (<<>> is None, <<x>> is Some(x)).                 *)
(***************************************************************************)
EXTENDS Integers, Sequences, FiniteSets, TLC

VARIABLES defId, newDef, asset, last

vars == <<defId, newDef, asset, last>>

\* ---------------------------------------------------------------- bounds

\* Longest string handed to the AssetDefinitionId constructor and setters.
MaxLen == 3

\* ------------------------------------------------------- common helpers

None == <<>>

Some(x) == <<x>>

IsSome(o) == Len(o) = 1

\* The characters strings are built from: an ordinary character, the
\* reserved separator of asset definition ids, and a white space.
Chars == {"a", "#", " "}

StrsOver(C, n) == UNION {[1..k -> C] : k \in 0..n}

Strs(n) == StrsOver(Chars, n)

\* What the Python caller gets back from a call.
Ok == [exc |-> "none"]

Err(e, t) == [exc |-> e, text |-> t]

\* A Rust panic (todo!, unimplemented!, a failed Numeric::new) crossing
\* the pyo3 boundary: pyo3 raises pyo3_runtime.PanicException.
Panic == [exc |-> "PanicException"]

\* ------------------------------------------------------ AssetDefinitionId

\* str::parse::<Name>() as called at asset.rs:28-33, 44-46, 57-59: a Name
\* is a non-empty string without white space and without the reserved
\* characters ('@' and '$' are reserved too; they are not in Chars).
ParseName(s) ==
    IF Len(s) > 0 /\ \A i \in 1..Len(s) : s[i] \notin {" ", "#"}
    THEN Some(s)
    ELSE None

\* PyAssetDefinitionId::new
AssetDefinitionIdNew(name, domain) ==
    LET n == ParseName(name)
        d == ParseName(domain)
    IN  IF ~IsSome(n)
        THEN [obj |-> None, res |-> Err("ValueError", "Invalid AssedDefinitionId name")]
        ELSE IF ~IsSome(d)
        THEN [obj |-> None, res |-> Err("ValueError", "Invalid Domain name")]
        ELSE [obj |-> Some([name |-> n[1], domain |-> d[1]]), res |-> Ok]

\* PyAssetDefinitionId::get_name
GetName(id) == id.name

\* PyAssetDefinitionId::get_domain
GetDomain(id) == id.domain

\* A set_name that stores the raw string before validating it.
SetNameEager(id, name) ==
    LET n == ParseName(name)
    IN  IF ~IsSome(n)
        THEN [obj |-> [id EXCEPT !.name = name],
              res |-> Err("ValueError", "Invalid AssedDefinitionId name")]
        ELSE [obj |-> [id EXCEPT !.name = n[1]], res |-> Ok]

\* PyAssetDefinitionId::set_name: the `?` returns before the assignment.
SetName(id, name) ==
    LET n == ParseName(name)
    IN  IF ~IsSome(n)
        THEN [obj |-> id, res |-> Err("ValueError", "Invalid AssedDefinitionId name")]
        ELSE [obj |-> [id EXCEPT !.name = n[1]], res |-> Ok]

\* PyAssetDefinitionId::set_domain
SetDomain(id, name) ==
    LET d == ParseName(name)
    IN  IF ~IsSome(d)
        THEN [obj |-> id, res |-> Err("ValueError", "Invalid Domain name")]
        ELSE [obj |-> [id EXCEPT !.domain = d[1]], res |-> Ok]

\* ----------------------------------------------------------------- state

Init ==
    /\ defId = None
    /\ newDef = None
    /\ asset = None
    /\ last = [op |-> "none"]

\* ------------------------------------------- actions on AssetDefinitionId

\* The constructor is called once, on the way from no object to an object.
DefIdNew ==
    /\ last.op = "none"
    /\ \E name \in Strs(MaxLen), domain \in Strs(MaxLen) :
        LET r == AssetDefinitionIdNew(name, domain)
        IN  /\ defId' = r.obj
            /\ last' = [op |-> "AssetDefinitionId.new", name |-> name,
                        domain |-> domain, pre |-> defId, res |-> r.res]
    /\ UNCHANGED <<newDef, asset>>

DefIdSetName ==
    /\ IsSome(defId)
    /\ \E name \in Strs(MaxLen) :
        LET r == SetName(defId[1], name)
        IN  /\ defId' = Some(r.obj)
            /\ last' = [op |-> "AssetDefinitionId.set_name", arg |-> name,
                        pre |-> defId, res |-> r.res]
    /\ UNCHANGED <<newDef, asset>>

DefIdSetDomain ==
    /\ IsSome(defId)
    /\ \E name \in Strs(MaxLen) :
        LET r == SetDomain(defId[1], name)
        IN  /\ defId' = Some(r.obj)
            /\ last' = [op |-> "AssetDefinitionId.set_domain", arg |-> name,
                        pre |-> defId, res |-> r.res]
    /\ UNCHANGED <<newDef, asset>>

NextId == DefIdNew \/ DefIdSetName \/ DefIdSetDomain

\* ------------------------------------------------------------ claim C1

\* C1: set_name (resp. set_domain) either succeeds and replaces exactly the
\* name (resp. domain) with the given string while the other component
\* keeps its previous value, or fails with ValueError and leaves both name
\* and domain as they were before the call.
C1_SetterAtomic ==
    /\ last.op = "AssetDefinitionId.set_name" =>
        \/ /\ last.res = Ok
           /\ GetName(defId[1]) = last.arg
           /\ GetDomain(defId[1]) = GetDomain(last.pre[1])
        \/ /\ last.res.exc = "ValueError"
           /\ defId = last.pre
    /\ last.op = "AssetDefinitionId.set_domain" =>
        \/ /\ last.res = Ok
           /\ GetDomain(defId[1]) = last.arg
           /\ GetName(defId[1]) = GetName(last.pre[1])
        \/ /\ last.res.exc = "ValueError"
           /\ defId = last.pre

\* A set_name with an invalid name was rejected on an id whose name and
\* domain differ, so that a write to the wrong component would show.
C1_Witness ==
    /\ last.op = "AssetDefinitionId.set_name"
    /\ last.res.exc = "ValueError"
    /\ ParseName(last.arg) = None
    /\ GetDomain(defId[1]) # GetName(defId[1])


\* ---------------------------------------------------- NewAssetDefinition

\* Largest scale of a NumericSpec::fractional handed to the model.
MaxSpecScale == 1

\* AssetType values: PyAssetType::numeric_unconstrained, numeric_fractional
\* and store.  Python objects of the two enum-like classes share one record
\* shape so that a getter's result can be compared with any argument.
AssetTypes ==
    {[cls |-> "AssetType", kind |-> "Numeric", scale |-> None],
     [cls |-> "AssetType", kind |-> "Store", scale |-> None]}
    \cup {[cls |-> "AssetType", kind |-> "Numeric", scale |-> Some(k)] :
            k \in 0..MaxSpecScale}

\* mirror_fieldless_enum! Mintable; Infinitely, Once, Not
Mintables ==
    {[cls |-> "Mintable", kind |-> k, scale |-> None] :
        k \in {"Infinitely", "Once", "Not"}}

\* s.split(c): the pieces of s between the occurrences of c.
RECURSIVE SplitFrom(_, _, _, _)
SplitFrom(s, c, i, cur) ==
    IF i > Len(s) THEN <<cur>>
    ELSE IF s[i] = c THEN <<cur>> \o SplitFrom(s, c, i + 1, <<>>)
    ELSE SplitFrom(s, c, i + 1, Append(cur, s[i]))

Split(s, c) == SplitFrom(s, c, 1, <<>>)

\* str::parse::<AssetDefinitionId>() as called at asset.rs:124-126 and
\* 156-158: exactly `name#domain`, each part a Name.
ParseAssetDefinitionId(s) ==
    LET parts == Split(s, "#")
    IN  IF Len(parts) = 2 /\ IsSome(ParseName(parts[1])) /\ IsSome(ParseName(parts[2]))
        THEN Some([name |-> parts[1], domain |-> parts[2]])
        ELSE None

\* Logo strings, each written as its pieces between '/' characters:
\* "/ipfs/Qm", "Qm", "/ipns/k", "", "/ipfs", "/ipfs/Q", "/http/Qm".
LogoStrings ==
    {<<"", "ipfs", "Qm">>, <<"Qm">>, <<"", "ipns", "k">>,
     <<"">>, <<"", "ipfs">>, <<"", "ipfs", "Q">>, <<"", "http", "Qm">>}

\* A content id needs at least two characters.
CheckCid(seg) == Len(seg) >= 2

\* str::parse::<IpfsPath>() as called at asset.rs:137-139 and 194-195: an
\* optional root (/ipfs, /ipld, /ipns) followed by a content id, then more
\* segments.
ParseIpfsPath(p) ==
    LET rooted == p[1] = ""
        okHead == IF rooted
                  THEN /\ Len(p) >= 3
                       /\ \/ p[2] \in {"ipfs", "ipld"} /\ CheckCid(p[3])
                          \/ p[2] = "ipns"
                  ELSE CheckCid(p[1])
        from == IF rooted THEN 4 ELSE 2
    IN  IF okHead /\ \A i \in from..Len(p) : CheckCid(p[i])
        THEN Some(p)
        ELSE None

\* The ids a caller holds as PyAssetDefinitionId objects.
IdObjects ==
    {[name |-> <<"a">>, domain |-> <<"a">>],
     [name |-> <<"a", "a">>, domain |-> <<"a">>]}

\* The Python objects handed in as `id: PyObject`: ids, strings of
\* ordinary characters and separators, and an object that is neither.
IdArgs ==
    {[cls |-> "AssetDefinitionId", v |-> i] : i \in IdObjects}
    \cup {[cls |-> "str", v |-> s] : s \in StrsOver({"a", "#"}, MaxLen)}
    \cup {[cls |-> "int", v |-> <<>>]}

\* asset.rs:121-131: the id of a new definition from a Python object.
ExtractId(id) ==
    IF id.cls = "AssetDefinitionId" THEN [v |-> Some(id.v), res |-> Ok]
    ELSE IF id.cls = "str"
    THEN LET parsed == ParseAssetDefinitionId(id.v)
         IN  IF IsSome(parsed) THEN [v |-> parsed, res |-> Ok]
             ELSE [v |-> None, res |-> Err("ValueError", "Invalid AssetDefinition id")]
    ELSE [v |-> None,
          res |-> Err("ValueError",
                      "Invalid AssetDefinition id, expected AssetDefinitionId or a string")]

MintableInfinitely == [cls |-> "Mintable", kind |-> "Infinitely", scale |-> None]

\* AssetDefinition::new(id, type) as called at asset.rs:132: mintable
\* infinitely, no logo.
AssetDefinitionNew(id, type) ==
    [id |-> id, type_ |-> type, mintable |-> MintableInfinitely, logo |-> None]

\* A constructor that drops the caller's mint policy.
ApplyMintableDropped(def, mintable) == def

\* asset.rs:133-135
ApplyMintable(def, mintable) ==
    IF IsSome(mintable) THEN [def EXCEPT !.mintable = mintable[1]] ELSE def

\* PyNewAssetDefinition::new
NewAssetDefinitionNew(id, value_type, mintable, logo, metadata) ==
    LET i == ExtractId(id)
        logoParsed == IF IsSome(logo) THEN ParseIpfsPath(logo[1]) ELSE None
    IN  IF i.res # Ok THEN [obj |-> None, res |-> i.res]
        ELSE IF IsSome(logo) /\ ~IsSome(logoParsed)
        THEN [obj |-> None, res |-> Err("ValueError", "Invalid IPFS path")]
        ELSE IF IsSome(metadata)
        THEN [obj |-> None, res |-> Panic]
        ELSE [obj |-> Some([ApplyMintable(AssetDefinitionNew(i.v[1], value_type), mintable)
                              EXCEPT !.logo = logoParsed]),
              res |-> Ok]

\* PyNewAssetDefinition::get_id
GetId(def) == def.id

\* PyNewAssetDefinition::get_type
GetType(def) == def.type_

\* PyNewAssetDefinition::get_mintable
GetMintable(def) == def.mintable

\* PyNewAssetDefinition::get_logo
GetLogo(def) == def.logo

\* PyNewAssetDefinition::set_id
SetId(def, id) ==
    IF id.cls = "str"
    THEN LET parsed == ParseAssetDefinitionId(id.v)
         IN  IF IsSome(parsed) THEN [obj |-> [def EXCEPT !.id = parsed[1]], res |-> Ok]
             ELSE [obj |-> def, res |-> Err("ValueError", "Invalid AssetDefinition")]
    ELSE IF id.cls = "AssetDefinitionId"
    THEN [obj |-> [def EXCEPT !.id = id.v], res |-> Ok]
    ELSE [obj |-> def, res |-> Err("TypeError", "AssetDefinitionId")]

\* PyNewAssetDefinition::set_type
SetType(def, new) == [obj |-> [def EXCEPT !.type_ = new], res |-> Ok]

\* PyNewAssetDefinition::set_mintable: the parameter is declared
\* `new: PyAssetType`, so pyo3 rejects any other object with TypeError
\* before the body runs; the body assigns type_.
SetMintable(def, new) ==
    IF new.cls = "AssetType"
    THEN [obj |-> [def EXCEPT !.type_ = new], res |-> Ok]
    ELSE [obj |-> def, res |-> Err("TypeError", "AssetType")]

\* A set_logo that stores the string it was given without parsing it.
SetLogoUnchecked(def, new) ==
    IF IsSome(new) THEN [obj |-> [def EXCEPT !.logo = new], res |-> Ok]
    ELSE [obj |-> def, res |-> Ok]

\* PyNewAssetDefinition::set_logo: None leaves the logo as it is.
SetLogo(def, new) ==
    IF IsSome(new)
    THEN LET parsed == ParseIpfsPath(new[1])
         IN  IF IsSome(parsed) THEN [obj |-> [def EXCEPT !.logo = parsed], res |-> Ok]
             ELSE [obj |-> def, res |-> Err("ValueError", "Malformed IPFS path")]
    ELSE [obj |-> def, res |-> Ok]

OptionOf(S) == {None} \cup {Some(x) : x \in S}

\* The constructor is called once.  metadata is None or a dict.
NewDefNew ==
    /\ last.op = "none"
    /\ \E id \in IdArgs, value_type \in AssetTypes, mintable \in OptionOf(Mintables),
          logo \in OptionOf(LogoStrings), metadata \in OptionOf({"dict"}) :
        LET r == NewAssetDefinitionNew(id, value_type, mintable, logo, metadata)
        IN  /\ newDef' = r.obj
            /\ last' = [op |-> "NewAssetDefinition.new", id |-> id,
                        value_type |-> value_type, mintable |-> mintable,
                        logo |-> logo, metadata |-> metadata,
                        pre |-> newDef, res |-> r.res]
    /\ UNCHANGED <<defId, asset>>

NewDefSetId ==
    /\ IsSome(newDef)
    /\ \E id \in IdArgs :
        LET r == SetId(newDef[1], id)
        IN  /\ newDef' = Some(r.obj)
            /\ last' = [op |-> "NewAssetDefinition.set_id", arg |-> id,
                        pre |-> newDef, res |-> r.res]
    /\ UNCHANGED <<defId, asset>>

NewDefSetType ==
    /\ IsSome(newDef)
    /\ \E new \in AssetTypes :
        LET r == SetType(newDef[1], new)
        IN  /\ newDef' = Some(r.obj)
            /\ last' = [op |-> "NewAssetDefinition.set_type", arg |-> new,
                        pre |-> newDef, res |-> r.res]
    /\ UNCHANGED <<defId, asset>>

NewDefSetMintable ==
    /\ IsSome(newDef)
    /\ \E new \in AssetTypes \cup Mintables :
        LET r == SetMintable(newDef[1], new)
        IN  /\ newDef' = Some(r.obj)
            /\ last' = [op |-> "NewAssetDefinition.set_mintable", arg |-> new,
                        pre |-> newDef, res |-> r.res]
    /\ UNCHANGED <<defId, asset>>

NewDefSetLogo ==
    /\ IsSome(newDef)
    /\ \E new \in OptionOf(LogoStrings) :
        LET r == SetLogo(newDef[1], new)
        IN  /\ newDef' = Some(r.obj)
            /\ last' = [op |-> "NewAssetDefinition.set_logo", arg |-> new,
                        pre |-> newDef, res |-> r.res]
    /\ UNCHANGED <<defId, asset>>

NextDef ==
    NewDefNew \/ NewDefSetId \/ NewDefSetType \/ NewDefSetMintable \/ NewDefSetLogo


\* ------------------------------------------------------------------ Asset

\* Integer widths, scaled down so that every value can be enumerated: the
\* code's u32 (32 bits), the mantissa of Decimal and Numeric (96 bits), u128
\* and i128 (128 bits), and the bits of precision rust_decimal keeps of an
\* f64 (52).  Their order is the code's: U32Bits < PrecBits < DecBits <
\* U128Bits.
U32Bits == 1

PrecBits == 4

DecBits == 5

U128Bits == 6

\* Largest scale of a Decimal (28 in rust_decimal), scaled down.
MaxScale == 2

\* The f64 inputs: mantissas of at most FloatBits bits, binary exponents
\* between -MaxExp and MaxExp.
FloatBits == 2

MaxExp == 1

RECURSIVE Pow(_, _)
Pow(b, n) == IF n = 0 THEN 1 ELSE b * Pow(b, n - 1)

U32Max == Pow(2, U32Bits) - 1

U128Max == Pow(2, U128Bits) - 1

\* Largest mantissa of a Decimal, and so of a Numeric.
MaxMantissa == Pow(2, DecBits) - 1

\* A finite f64 is (-1)^neg * m * 2^e.
Finite(neg, m, e) == [kind |-> "finite", neg |-> neg, m |-> m, e |-> e]

NaN == [kind |-> "nan", neg |-> FALSE, m |-> 0, e |-> 0]

Inf(neg) == [kind |-> "inf", neg |-> neg, m |-> 0, e |-> 0]

Floats ==
    {NaN, Inf(FALSE), Inf(TRUE), Finite(FALSE, 0, 0), Finite(TRUE, 0, 0)}
    \cup {Finite(neg, m, e) :
            neg \in BOOLEAN, m \in 1..(Pow(2, FloatBits) - 1), e \in -MaxExp..MaxExp}

\* The Python objects handed in as `value: PyObject`: ints (two below zero,
\* two above u128), floats, and objects that are no number.
ValueArgs ==
    {[cls |-> "int", v |-> n] : n \in -2..(U128Max + 2)}
    \cup {[cls |-> "float", v |-> f] : f \in Floats}
    \cup {[cls |-> "str", v |-> <<>>], [cls |-> "dict", v |-> <<>>]}

RECURSIVE RoundShift(_)
\* The least k with n \div 2^k below 2^(PrecBits + 1).
RoundShift(n) == IF n < Pow(2, PrecBits + 1) THEN 0 ELSE 1 + RoundShift(n \div 2)

\* value.extract::<f64>() of a Python int (asset.rs:250, 297): the nearest
\* f64, ties to even, with PrecBits + 1 bits of mantissa.
IntToF64(n) ==
    LET a == IF n < 0 THEN -n ELSE n
        k == RoundShift(a)
        q == a \div Pow(2, k)
        r == a % Pow(2, k)
        up == k > 0 /\ (2 * r > Pow(2, k) \/ (2 * r = Pow(2, k) /\ q % 2 = 1))
    IN  Finite(n < 0, IF up THEN q + 1 ELSE q, k)

\* rust_decimal's base2_to_decimal, loop by loop, on the value
\* bits * 5^e5 * 10^e10.  First loop: a negative binary exponent.
RECURSIVE Base2Down(_, _, _)
Base2Down(bits, e5, e10) ==
    IF e5 <= 0 THEN [bits |-> bits, e5 |-> e5, e10 |-> e10]
    ELSE IF bits % 2 = 0 THEN Base2Down(bits \div 2, e5 - 1, e10 + 1)
    ELSE IF bits * 5 <= MaxMantissa THEN Base2Down(bits * 5, e5 - 1, e10)
    ELSE Base2Down(bits \div 2, e5 - 1, e10 + 1)

\* Second loop: a positive binary exponent.
RECURSIVE Base2Up(_, _, _)
Base2Up(bits, e5, e10) ==
    IF e5 >= 0 THEN [bits |-> bits, e5 |-> e5, e10 |-> e10]
    ELSE IF bits < Pow(2, DecBits - 1) THEN Base2Up(bits * 2, e5 + 1, e10 - 1)
    ELSE Base2Up(bits \div 5, e5 + 1, e10)

\* Third loop: a positive decimal exponent is multiplied in, or overflows.
RECURSIVE ScaleToZero(_, _)
ScaleToZero(bits, e10) ==
    IF e10 <= 0 THEN Some([bits |-> bits, e10 |-> e10])
    ELSE IF bits * 10 <= MaxMantissa THEN ScaleToZero(bits * 10, e10 - 1)
    ELSE None

\* bits / 10, rounded half up.
DivRound10(bits) == (bits \div 10) + (IF bits % 10 >= 5 THEN 1 ELSE 0)

\* Fourth loop: more than MaxScale decimal places are rounded away.
RECURSIVE ClampScale(_, _)
ClampScale(bits, e10) ==
    IF e10 >= -MaxScale THEN [bits |-> bits, e10 |-> e10]
    ELSE IF bits \div 10 = 0 THEN [bits |-> 0, e10 |-> 0]
    ELSE ClampScale(DivRound10(bits), e10 + 1)

\* Fifth loop: digits beyond the precision of an f64 are rounded away.
RECURSIVE RemoveExcess(_, _)
RemoveExcess(bits, e10) ==
    IF e10 < 0 /\ bits >= Pow(2, PrecBits)
    THEN RemoveExcess(DivRound10(bits), e10 + 1)
    ELSE [bits |-> bits, e10 |-> e10]

\* Sixth loop: trailing decimal zeros are dropped.
RECURSIVE StripZeros(_, _)
StripZeros(bits, e10) ==
    IF e10 < 0 /\ bits % 10 = 0 THEN StripZeros(bits \div 10, e10 + 1)
    ELSE [bits |-> bits, e10 |-> e10]

Dec(neg, mant, scale) == [neg |-> neg, mant |-> mant, scale |-> scale]

\* Decimal::from_f64(val) as called at asset.rs:251 and 298: None for NaN
\* and the infinities and for a magnitude beyond the mantissa, else the
\* decimal nearest to val within the precision kept.
DecimalFromF64(f) ==
    IF f.kind # "finite" THEN None
    ELSE IF f.m = 0 THEN Some(Dec(f.neg, 0, 0))
    ELSE LET a == Base2Down(f.m, -f.e, f.e)
             b == Base2Up(a.bits, a.e5, a.e10)
             c == ScaleToZero(b.bits, b.e10)
         IN  IF ~IsSome(c) THEN None
             ELSE LET d == ClampScale(c[1].bits, c[1].e10)
                      g == RemoveExcess(d.bits, d.e10)
                      h == StripZeros(g.bits, g.e10)
                  IN  Some(Dec(f.neg, h.bits, -h.e10))

\* Decimal::mantissa(): the signed unscaled value, an i128.
DecimalMantissa(d) == IF d.neg THEN -d.mant ELSE d.mant

\* `x as u128` of an i128 (asset.rs:254, 301): wraps modulo 2^128.
AsU128(x) == x % Pow(2, U128Bits)

\* `x as i128` of a u128 (asset.rs:280).
AsI128(x) == IF x >= Pow(2, U128Bits - 1) THEN x - Pow(2, U128Bits) ELSE x

NumericValue(mantissa, scale) ==
    [kind |-> "Numeric", mantissa |-> mantissa, scale |-> scale]

\* AssetValue::Store(metadata); the metadata is not looked at.
StoreValue == [kind |-> "Store", mantissa |-> 0, scale |-> 0]

\* AssetValue::Numeric(Numeric::new(mantissa, scale)) as called at
\* asset.rs:247, 249, 254: Numeric::new panics on a mantissa of more than
\* 96 bits or a scale above 28.
NumericNew(mantissa, scale) ==
    IF mantissa > MaxMantissa \/ scale > MaxScale
    THEN [v |-> None, res |-> Panic]
    ELSE [v |-> Some(NumericValue(mantissa, scale)), res |-> Ok]

\* A conversion that falls back to zero when the float has no decimal.
FloatToValueOrZero(f) ==
    LET decimal == DecimalFromF64(f)
    IN  IF ~IsSome(decimal) THEN NumericNew(0, 0)
        ELSE NumericNew(AsU128(DecimalMantissa(decimal[1])), decimal[1].scale)

\* asset.rs:250-254 (and 297-301): the f64 branch.
FloatToValue(f) ==
    LET decimal == DecimalFromF64(f)
    IN  IF ~IsSome(decimal)
        THEN [v |-> None,
              res |-> Err("ValueError", "float could not be converted into decimal number")]
        ELSE NumericNew(AsU128(DecimalMantissa(decimal[1])), decimal[1].scale)

\* asset.rs:246-254 (and 293-301): the chain of extract::<u32>,
\* extract::<u128>, extract::<f64>; `unrecognised` is what the final else
\* branch of the caller answers.
ValueFromPy(value, unrecognised) ==
    IF value.cls = "int" /\ 0 <= value.v /\ value.v <= U32Max
    THEN NumericNew(value.v, 0)
    ELSE IF value.cls = "int" /\ 0 <= value.v /\ value.v <= U128Max
    THEN NumericNew(value.v, 0)
    ELSE IF value.cls = "int" THEN FloatToValue(IntToF64(value.v))
    ELSE IF value.cls = "float" THEN FloatToValue(value.v)
    ELSE [v |-> None, res |-> unrecognised]

\* PyAsset::new; the id is a PyAssetId the caller already holds.
AssetNew(value) ==
    LET r == ValueFromPy(value,
                 [exc |-> "ValueError", text |-> "Unrecognised value for asset",
                  detail |-> value])
    IN  IF IsSome(r.v) THEN [obj |-> Some([value |-> r.v[1]]), res |-> Ok]
        ELSE [obj |-> None, res |-> r.res]

\* PyAsset::set_value
SetValue(a, value) ==
    LET r == ValueFromPy(value,
                 Err("NotImplementedError", "Metadata Values are currently read-only"))
    IN  IF IsSome(r.v) THEN [obj |-> [a EXCEPT !.value = r.v[1]], res |-> Ok]
        ELSE [obj |-> a, res |-> r.res]

\* PyAsset::get_value: a Python decimal.Decimal, or unimplemented!().
GetValue(a) ==
    IF a.value.kind = "Numeric"
    THEN LET num == AsI128(a.value.mantissa)
         IN  [res |-> Ok,
              ret |-> Some(Dec(num < 0, IF num < 0 THEN -num ELSE num, a.value.scale))]
    ELSE [res |-> Panic, ret |-> None]

\* The assets a query hands back from the ledger (a sample of them).
LedgerAssets ==
    {[value |-> StoreValue]}
    \cup {[value |-> NumericValue(m, sc)] : m \in {0, MaxMantissa}, sc \in 0..MaxScale}

\* The constructor is called once.
AssetCreate ==
    /\ last.op = "none"
    /\ \E value \in ValueArgs :
        LET r == AssetNew(value)
        IN  /\ asset' = r.obj
            /\ last' = [op |-> "Asset.new", arg |-> value, pre |-> asset, res |-> r.res]
    /\ UNCHANGED <<defId, newDef>>

\* mirror_struct! Asset: a PyAsset wrapped around an Asset of the ledger.
AssetMirror ==
    /\ last.op = "none"
    /\ \E a \in LedgerAssets :
        /\ asset' = Some(a)
        /\ last' = [op |-> "Asset.mirror", pre |-> asset, res |-> Ok]
    /\ UNCHANGED <<defId, newDef>>

AssetSetValue ==
    /\ IsSome(asset)
    /\ \E value \in ValueArgs :
        LET r == SetValue(asset[1], value)
        IN  /\ asset' = Some(r.obj)
            /\ last' = [op |-> "Asset.set_value", arg |-> value, pre |-> asset,
                        res |-> r.res]
    /\ UNCHANGED <<defId, newDef>>

AssetGetValue ==
    /\ IsSome(asset)
    /\ LET r == GetValue(asset[1])
       IN  last' = [op |-> "Asset.get_value", pre |-> asset, res |-> r.res,
                    ret |-> r.ret]
    /\ UNCHANGED <<defId, newDef, asset>>

NextAsset == AssetCreate \/ AssetMirror \/ AssetSetValue \/ AssetGetValue

\* One object of one class is constructed and then used.
Next == NextId \/ NextDef \/ NextAsset

Spec == Init /\ [][Next]_vars


\* ------------------------------------------------------------- claims

AssetWrite == last.op \in {"Asset.new", "Asset.set_value"}

DefSetter ==
    last.op \in {"NewAssetDefinition.set_id", "NewAssetDefinition.set_type",
                 "NewAssetDefinition.set_mintable", "NewAssetDefinition.set_logo"}

\* The exact value of a finite f64 equals that of a decimal.
FloatEqualsDecimal(f, d) ==
    IF f.m = 0 THEN d.mant = 0
    ELSE /\ f.neg = d.neg
         /\ f.m * Pow(2, IF f.e > 0 THEN f.e ELSE 0) * Pow(10, d.scale)
              = d.mant * Pow(2, IF f.e < 0 THEN -f.e ELSE 0)

\* A number no unsigned mantissa/scale value represents: below zero, or
\* above the largest mantissa.
OutOfRange(value) ==
    \/ value.cls = "int" /\ (value.v < 0 \/ value.v > MaxMantissa)
    \/ /\ value.cls = "float"
       /\ value.v.kind = "finite"
       /\ value.v.m > 0
       /\ \/ value.v.neg
          \/ value.v.e >= 0 /\ value.v.m * Pow(2, value.v.e) > MaxMantissa

\* C2: a numeric input outside the representable range (negative, or too
\* large for the mantissa) given to Asset construction or set_value fails
\* with ValueError: nothing is stored and nothing panics.
C2_OutOfRangeIsValueError ==
    (AssetWrite /\ OutOfRange(last.arg)) =>
        /\ last.res.exc = "ValueError"
        /\ asset = last.pre

\* C3: an input that is no supported number fails with a ValueError naming
\* the input, on construction and on set_value, and set_value leaves the
\* stored value unchanged.
C3_OtherTypeIsValueError ==
    (AssetWrite /\ last.arg.cls \notin {"int", "float"}) =>
        /\ last.res = [exc |-> "ValueError", text |-> "Unrecognised value for asset",
                       detail |-> last.arg]
        /\ asset = last.pre

\* C4: supplying metadata to NewAssetDefinition construction (with an id
\* and a logo that are accepted) and reading the value of a Store asset
\* end in an explicit not-supported error, distinct from ValueError, and
\* never in a panic.
C4_UnsupportedIsSignalled ==
    /\ ( /\ last.op = "NewAssetDefinition.new"
         /\ IsSome(last.metadata)
         /\ ExtractId(last.id).res = Ok
         /\ (IsSome(last.logo) => IsSome(ParseIpfsPath(last.logo[1]))) )
        => last.res.exc = "NotImplementedError"
    /\ (last.op = "Asset.get_value" /\ last.pre[1].value.kind = "Store")
        => last.res.exc = "NotImplementedError"

\* C5: NaN and the infinities given to Asset construction or set_value
\* fail with ValueError "float could not be converted into decimal
\* number"; no asset is constructed, and set_value leaves the stored value
\* as it was.
C5_NonFiniteRejected ==
    (AssetWrite /\ last.arg.cls = "float" /\ last.arg.v.kind \in {"nan", "inf"}) =>
        /\ last.res = Err("ValueError", "float could not be converted into decimal number")
        /\ asset = last.pre

\* set_value(NaN) was rejected on an asset holding a value other than zero.
C5_Witness ==
    /\ last.op = "Asset.set_value"
    /\ last.arg.cls = "float"
    /\ last.arg.v.kind = "nan"
    /\ last.res.exc = "ValueError"
    /\ asset[1].value.mantissa > 0

\* C6: for every finite f64 convertible to a decimal, storing it as an
\* asset value and reading it back with get_value yields a decimal equal
\* to the float's exact value.
C6_FloatRoundTrip ==
    ( /\ AssetWrite
      /\ last.arg.cls = "float"
      /\ IsSome(DecimalFromF64(last.arg.v)) ) =>
        /\ last.res = Ok
        /\ GetValue(asset[1]).res = Ok
        /\ FloatEqualsDecimal(last.arg.v, GetValue(asset[1]).ret[1])

\* C7: an unsigned integer n of the 32-bit or the 128-bit range given to
\* Asset construction or set_value yields the Numeric variant with scale 0
\* and mantissa n.
C7_IntegralFastPath ==
    ( /\ AssetWrite
      /\ last.arg.cls = "int"
      /\ 0 <= last.arg.v
      /\ last.arg.v <= U128Max ) =>
        /\ last.res = Ok
        /\ asset[1].value = NumericValue(last.arg.v, 0)

\* C8: a NewAssetDefinition constructed with mint policy m reads back
\* get_mintable = m, and no setter (set_id, set_type, set_mintable,
\* set_logo) changes what get_mintable returns; so after any sequence of
\* them get_mintable still returns m.
C8_MintPolicyFixed ==
    /\ ( /\ last.op = "NewAssetDefinition.new"
         /\ last.res = Ok
         /\ IsSome(last.mintable) )
        => GetMintable(newDef[1]) = last.mintable[1]
    /\ DefSetter => GetMintable(newDef[1]) = GetMintable(last.pre[1])

\* set_mintable returned normally on a definition constructed with a mint
\* policy other than the default.
C8_Witness ==
    /\ last.op = "NewAssetDefinition.set_mintable"
    /\ last.res = Ok
    /\ GetMintable(newDef[1]).kind = "Once"

\* C9: a malformed logo path is rejected with ValueError before it is
\* stored: construction then yields no definition, set_logo leaves the
\* stored logo unchanged, and the stored logo is always absent or a valid
\* path.
C9_LogoValidated ==
    /\ ( /\ last.op = "NewAssetDefinition.new"
         /\ IsSome(last.logo)
         /\ ~IsSome(ParseIpfsPath(last.logo[1])) )
        => (last.res.exc = "ValueError" /\ newDef = None)
    /\ ( /\ last.op = "NewAssetDefinition.set_logo"
         /\ IsSome(last.arg)
         /\ ~IsSome(ParseIpfsPath(last.arg[1])) )
        => (last.res.exc = "ValueError" /\ newDef = last.pre)
    /\ IsSome(newDef) =>
        (IsSome(GetLogo(newDef[1])) => IsSome(ParseIpfsPath(GetLogo(newDef[1])[1])))

\* set_logo rejected a malformed path on a definition that holds a logo.
C9_Witness ==
    /\ last.op = "NewAssetDefinition.set_logo"
    /\ last.res.exc = "ValueError"
    /\ IsSome(last.arg)
    /\ IsSome(GetLogo(newDef[1]))

\* The id a set_id argument denotes.
IdDenoted(id) == IF id.cls = "str" THEN ParseAssetDefinitionId(id.v)[1] ELSE id.v

\* C10: each setter of NewAssetDefinition writes exactly the field it is
\* named for: after a successful set_X(v), get_X returns v (get_logo
\* returns None after set_logo(None)) and every other getter returns what
\* it returned before.
C10_SettersWriteOwnField ==
    (DefSetter /\ last.res = Ok) =>
        LET d == newDef[1]
            p == last.pre[1]
        IN  /\ IF last.op = "NewAssetDefinition.set_id"
               THEN GetId(d) = IdDenoted(last.arg)
               ELSE GetId(d) = GetId(p)
            /\ IF last.op = "NewAssetDefinition.set_type"
               THEN GetType(d) = last.arg
               ELSE GetType(d) = GetType(p)
            /\ IF last.op = "NewAssetDefinition.set_mintable"
               THEN GetMintable(d) = last.arg
               ELSE GetMintable(d) = GetMintable(p)
            /\ IF last.op = "NewAssetDefinition.set_logo"
               THEN GetLogo(d) = last.arg
               ELSE GetLogo(d) = GetLogo(p)

=============================================================================
